---- MODULE Spec2Model ----
(***************************************************************************)
(* WebsiteCloner ("AI Agent CLI/bin/cli.js"): the depth-bounded,           *)
(* visited-set-guarded crawl of one site, its asset pipeline and its link  *)
(* rewriter.                                                               *)
(*                                                                         *)
(* Strings are modelled by their structure:                                *)
(*   - a pathname is the sequence of its "/"-separated segments after the  *)
(*     leading "/"; a segment is [stem, ext] ("about" = [about, ""],       *)
(*     "site.css" = [site, css]); the empty last segment Slash stands for  *)
(*     a trailing "/" ("/" = <<Slash>>, "/blog/" = <<blog, Slash>>);       *)
(*   - an absolute URL (URL.href) is [host, path];                         *)
(*   - an attribute value (href, src) is a reference [kind, host, path]:   *)
(*     "abs"  http://host/path        "path"  /path                        *)
(*     "rel"  path (no leading "/")   "hash"  #...      "empty"  ""        *)
(*     "mailto", "tel"                "bad"   a string new URL() rejects   *)
(***************************************************************************)
EXTENDS Integers, Sequences, FiniteSets, TLC

\* ------------------------------------------------------------------ bounds
\* Largest value of the --depth option that is explored.
MaxDepthOpt == 2
\* Number of transient failures (network, filesystem) injected in one run.
MaxFailures == 2

\* ------------------------------------------------------- program constants
\* this.maxDepth = options.maxDepth || 2
DefaultMaxDepth == 2

\* ------------------------------------------------------------ strings
Seg(s, e) == [stem |-> s, ext |-> e]
Slash == Seg("", "")
Url(h, p) == [host |-> h, path |-> p]
Ref(k, h, p) == [kind |-> k, host |-> h, path |-> p]
AbsRef(h, p) == Ref("abs", h, p)
PathRef(p) == Ref("path", "", p)
RelRef(p) == Ref("rel", "", p)
HashRef == Ref("hash", "", <<>>)
EmptyRef == Ref("empty", "", <<>>)
MailtoRef == Ref("mailto", "", <<>>)
TelRef == Ref("tel", "", <<>>)
BadRef == Ref("bad", "", <<>>)

Last(s) == s[Len(s)]
Front(s) == SubSeq(s, 1, Len(s) - 1)

\* new URL(ref, base) succeeds
CanResolve(ref) == ref.kind # "bad"

\* new URL(ref, base).href, for a reference new URL() accepts.  A relative
\* reference replaces the last segment of the base path; "#..." and ""
\* resolve to the base; mailto: and tel: URLs have an empty hostname.
Resolve(ref, base) ==
  CASE ref.kind = "abs" -> Url(ref.host, IF ref.path = <<>> THEN <<Slash>> ELSE ref.path)
    [] ref.kind = "path" -> Url(base.host, ref.path)
    [] ref.kind = "rel" -> Url(base.host, Front(base.path) \o ref.path)
    [] ref.kind \in {"hash", "empty"} -> base
    [] OTHER -> Url("", <<Slash>>)

\* path.extname(pathname): the extension of the last segment ("" if none)
Extname(path) == Last(path).ext

IndexHtml == Seg("index", "html")

\* getFilename(url): the string returned, as a reference: a result with a
\* leading "/" is a "path" reference, one without is a "rel" reference.
getFilenameNoHtml(url) ==
  LET pathname == url.path IN
  IF pathname = <<Slash>> THEN RelRef(<<IndexHtml>>)
  ELSE IF Last(pathname) = Slash THEN PathRef(Front(pathname) \o <<IndexHtml>>)
  ELSE IF Extname(pathname) = "" THEN PathRef(pathname)
  ELSE RelRef(pathname)

getFilename(url) ==
  LET pathname == url.path IN
  IF pathname = <<Slash>> THEN RelRef(<<IndexHtml>>)
  ELSE IF Last(pathname) = Slash THEN PathRef(Front(pathname) \o <<IndexHtml>>)
  ELSE IF Extname(pathname) = ""
    THEN PathRef(Front(pathname) \o <<Seg(Last(pathname).stem, "html")>>)
  ELSE RelRef(pathname)

\* path.join(this.outputDir, filename), relative to outputDir: path.join
\* normalises the separators, so a leading "/" of filename disappears.
PathJoin(filename) == filename.path

\* ------------------------------------------------------------ documents
\* An element of a parsed document ($): its tag, its rel attribute, the
\* value of its href/src attribute, and its inline style.  A style text is
\*   <pre> <decl>: <ws spaces> url( <quote> <url> <quote> ) <post>
\* with decl the declaration that carries the url(...) ("none": the element
\* has no style attribute), pre and post the text around that declaration.
NoStyle == [decl |-> "none", pre |-> "", ws |-> 0, quote |-> "", url |-> EmptyRef, post |-> ""]
El(t, r, v) == [tag |-> t, rel |-> r, ref |-> v, style |-> NoStyle]
StyleText(pre, d, ws, q, v, post) ==
  [ tag |-> "div", rel |-> "", ref |-> EmptyRef,
    style |-> [decl |-> d, pre |-> pre, ws |-> ws, quote |-> q, url |-> v, post |-> post] ]
StyleEl(d, v) == StyleText("", d, 1, "", v, "")

RootHost == "site.test"
OtherHost == "other.example"

LogoRef == PathRef(<<Seg("img", ""), Seg("logo", "")>>)
SiteCssRef == PathRef(<<Seg("css", ""), Seg("site", "css")>>)
AppJsRef == PathRef(<<Seg("js", ""), Seg("app", "js")>>)
BgJpgRef == PathRef(<<Seg("bg", "jpg")>>)
RawRef == PathRef(<<Seg("img", ""), Seg("raw", "")>>)
BlobRef == PathRef(<<Seg("files", ""), Seg("blob", "")>>)
IconLogoRef == PathRef(<<Seg("icons", ""), Seg("logo", "")>>)

\* The pages of the site under test.
HomeDoc ==
  << El("a", "", PathRef(<<Slash>>)),
     El("a", "", PathRef(<<Seg("about", "")>>)),
     El("img", "", LogoRef),
     El("img", "", LogoRef),
     El("link", "stylesheet", SiteCssRef),
     StyleEl("background", BgJpgRef) >>

AboutDoc ==
  << El("a", "", PathRef(<<Seg("blog", ""), Slash>>)),
     El("a", "", MailtoRef),
     El("a", "", EmptyRef),
     El("a", "", AbsRef(OtherHost, <<Seg("x", "")>>)),
     El("link", "stylesheet", SiteCssRef),
     El("img", "", LogoRef),
     El("img", "", RawRef),
     StyleText("color: red; ", "background-image", 0, "\"", BgJpgRef, "; margin: 0") >>

BlogDoc ==
  << El("a", "", AbsRef(RootHost, <<Seg("about", "")>>)),
     El("a", "", TelRef),
     El("a", "", BadRef),
     El("a", "", HashRef),
     El("a", "", PathRef(<<Seg("missing", "")>>)),
     El("script", "", AppJsRef),
     El("img", "", BlobRef),
     El("img", "", IconLogoRef),
     El("link", "icon", PathRef(<<Seg("favicon", "ico")>>)),
     StyleEl("background-image", BgJpgRef) >>

\* The page the server holds for a pathname: "/" and ".../index.html" name
\* their directory, "/about" and "/about.html" name the same page.
PageKey(path) ==
  LET d == IF Last(path) = Slash \/ Last(path).stem = "index" THEN Front(path) ELSE path
  IN IF d = <<>> THEN "home" ELSE Last(d).stem

\* response.data of a 2xx answer to GET url; other URLs answer 404.
PageServed(url) == url.host = RootHost /\ PageKey(url.path) \in {"home", "about", "blog"}
PageAt(url) ==
  CASE PageKey(url.path) = "home" -> HomeDoc
    [] PageKey(url.path) = "about" -> AboutDoc
    [] OTHER -> BlogDoc

\* Assets the server holds, and response.headers['content-type'] of each,
\* as [mime, params] ("image/png; q=1" = [image/png, "q=1"]).
AssetServed(url) ==
  url.host = RootHost
  /\ url.path \in {LogoRef.path, SiteCssRef.path, BgJpgRef.path, RawRef.path, BlobRef.path,
                   IconLogoRef.path}
ContentType(url) ==
  CASE url.path \in {LogoRef.path, IconLogoRef.path} -> [mime |-> "image/png", params |-> ""]
    [] url.path = SiteCssRef.path -> [mime |-> "text/css", params |-> "charset=utf-8"]
    [] url.path = RawRef.path -> [mime |-> "application/octet-stream", params |-> ""]
    [] OTHER -> [mime |-> "", params |-> ""]

\* Root URLs given on the command line.
RootURLs ==
  { Url(RootHost, <<Slash>>),
    Url(RootHost, <<Seg("about", "")>>),
    Url(RootHost, <<Seg("blog", ""), Slash>>) }

\* ---------------------------------------------------------------- state
VARIABLES
  rootURL,          \* options.url
  optMaxDepth,      \* options.maxDepth, as parsed from --depth
  downloadAssets,   \* this.downloadAssets
  visitedUrls,      \* this.visitedUrls
  downloadedAssets, \* this.downloadedAssets
  assetMap,         \* this.assetMap
  stack,            \* the crawlPage invocations in progress, innermost last
  phase,            \* "constructed", "preparing" (clone() awaits ensureDir),
                    \* "crawling", "done", "failed" (clone() threw)
  inflight,         \* the requests and file writes started and not yet completed
  fails,            \* transient failures injected so far
  pageGets,         \* history: the page GETs issued, [url, depth, ok]
  pageWrites,       \* history: the page files written, [url, path, dom]
  assetGets,        \* history: the asset GETs issued, [url, ok]
  assetWrites       \* history: the asset files written, [url, path, type]

vars == << rootURL, optMaxDepth, downloadAssets, visitedUrls, downloadedAssets,
           assetMap, stack, phase, inflight, fails, pageGets, pageWrites, assetGets,
           assetWrites >>

config == << rootURL, optMaxDepth, downloadAssets >>
crawlState == << visitedUrls, downloadedAssets, assetMap >>
history == << pageGets, pageWrites, assetGets, assetWrites >>

Range(s) == { s[i] : i \in DOMAIN s }
Top == stack[Len(stack)]
SetTop(f) == [stack EXCEPT ![Len(stack)] = f]

\* this.maxDepth = options.maxDepth || 2
maxDepth == IF optMaxDepth = 0 THEN DefaultMaxDepth ELSE optMaxDepth

\* ------------------------------------------------------- URL normalizer
isInternalLinkNoGuard(href, baseUrl) ==
  IF ~CanResolve(href) THEN FALSE
  ELSE Resolve(href, baseUrl).host = rootURL.host

isInternalLink(href, baseUrl) ==
  IF href.kind \in {"empty", "hash", "mailto", "tel"} THEN FALSE
  ELSE IF ~CanResolve(href) THEN FALSE
  ELSE Resolve(href, baseUrl).host = rootURL.host

\* ---------------------------------------------------------- link rewriter
\* $('a[href]').each(...): the href of internal anchors becomes getFilename(...)
rewriteLinksAllHref(dom, pageUrl) ==
  [ i \in DOMAIN dom |->
      IF dom[i].tag \in {"a", "link"} /\ isInternalLink(dom[i].ref, pageUrl)
        THEN [dom[i] EXCEPT !.ref = getFilename(Resolve(dom[i].ref, pageUrl))]
        ELSE dom[i] ]
rewriteLinks(dom, pageUrl) ==
  [ i \in DOMAIN dom |->
      IF dom[i].tag = "a" /\ isInternalLink(dom[i].ref, pageUrl)
        THEN [dom[i] EXCEPT !.ref = getFilename(Resolve(dom[i].ref, pageUrl))]
        ELSE dom[i] ]

\* The absolute URLs of the internal anchors of dom that are not visited,
\* in document order, each once.
extractInternalLinks(dom, pageUrl) ==
  LET links[i \in 0..Len(dom)] ==
        IF i = 0 THEN <<>>
        ELSE IF dom[i].tag = "a" /\ dom[i].ref.kind # "empty"
                /\ isInternalLink(dom[i].ref, pageUrl)
                /\ Resolve(dom[i].ref, pageUrl) \notin visitedUrls
                /\ Resolve(dom[i].ref, pageUrl) \notin Range(links[i - 1])
          THEN Append(links[i - 1], Resolve(dom[i].ref, pageUrl))
          ELSE links[i - 1]
  IN links[Len(dom)]

\* --------------------------------------------------------- asset pipeline
Indices(dom) == [i \in 1..Len(dom) |-> i]
Asset(i, a, u, t, s, o) ==
  [ element |-> i, attr |-> a, url |-> u, type |-> t, isStyleAttribute |-> s,
    originalStyle |-> o ]

\* $('[style*="background-image"], [style*="background:"]')
StyleSelected(style) == style.decl \in {"background-image", "background"}

\* style.match(/background-image:\s*url\(['"]?([^'")\s]+)['"]?\)/)
bgImageMatch(style) == style.decl = "background-image"

\* The assets list processAssets builds: images, stylesheets, scripts, then
\* the elements whose style has a background-image url(...).
ScanAssets(dom) ==
  LET imgs == SelectSeq(Indices(dom), LAMBDA i : dom[i].tag = "img" /\ dom[i].ref.kind # "empty")
      sheets == SelectSeq(Indices(dom), LAMBDA i : dom[i].tag = "link" /\ dom[i].rel = "stylesheet"
                                                    /\ dom[i].ref.kind # "empty")
      scripts == SelectSeq(Indices(dom), LAMBDA i : dom[i].tag = "script" /\ dom[i].ref.kind # "empty")
      styles == SelectSeq(Indices(dom), LAMBDA i : StyleSelected(dom[i].style)
                                                    /\ bgImageMatch(dom[i].style))
  IN [j \in 1..Len(imgs) |-> Asset(imgs[j], "src", dom[imgs[j]].ref, "image", FALSE, NoStyle)]
     \o [j \in 1..Len(sheets) |-> Asset(sheets[j], "href", dom[sheets[j]].ref, "css", FALSE, NoStyle)]
     \o [j \in 1..Len(scripts) |-> Asset(scripts[j], "src", dom[scripts[j]].ref, "js", FALSE, NoStyle)]
     \o [j \in 1..Len(styles) |-> Asset(styles[j], "style", dom[styles[j]].style.url, "image", TRUE,
                                        dom[styles[j]].style)]

\* if (!contentType) return ''; mimeToExt[contentType.split(';')[0]] || ''
guessExtensionNone(contentType) == ""
guessExtension(contentType) ==
  CASE contentType.mime = "text/css" -> "css"
    [] contentType.mime \in {"application/javascript", "text/javascript"} -> "js"
    [] contentType.mime = "image/jpeg" -> "jpg"
    [] contentType.mime = "image/png" -> "png"
    [] contentType.mime = "image/gif" -> "gif"
    [] contentType.mime = "image/svg+xml" -> "svg"
    [] contentType.mime = "image/webp" -> "webp"
    [] OTHER -> ""

\* path.basename(urlPath) || `asset_${Date.now()}`
Basename(path) ==
  LET p == IF Last(path) = Slash THEN Front(path) ELSE path
  IN IF p = <<>> THEN Seg("asset_now", "") ELSE Last(p)

\* path.relative(outputDir, assets/<type>/<finalFilename>)
AssetRelativePath(asset, absoluteUrl) ==
  LET filename == Basename(absoluteUrl.path)
      extension == IF filename.ext # "" THEN filename.ext
                   ELSE guessExtension(ContentType(absoluteUrl))
      finalFilename == IF filename.ext # "" THEN filename ELSE Seg(filename.stem, extension)
  IN << Seg("assets", ""), Seg(asset.type, ""), finalFilename >>

\* updateAssetReference(asset, localPath, $)
updateAssetReferenceWholeStyle(dom, asset, localPath) ==
  IF asset.isStyleAttribute
    THEN [dom EXCEPT ![asset.element].style =
            [asset.originalStyle EXCEPT !.pre = "", !.post = "", !.ws = 1, !.quote = "'",
                                        !.url = RelRef(localPath)]]
    ELSE [dom EXCEPT ![asset.element].ref = RelRef(localPath)]
updateAssetReference(dom, asset, localPath) ==
  IF asset.isStyleAttribute
    THEN \* originalStyle.replace(/background-image:\s*url\(...\)/,
         \*                       `background-image: url('${relativePath}')`)
         [dom EXCEPT ![asset.element].style =
            [asset.originalStyle EXCEPT !.ws = 1, !.quote = "'", !.url = RelRef(localPath)]]
    ELSE [dom EXCEPT ![asset.element].ref = RelRef(localPath)]

\* this.downloadedAssets.has(absoluteUrl)
AlreadyDownloadedNever(absoluteUrl) == FALSE
AlreadyDownloaded(absoluteUrl) == absoluteUrl \in downloadedAssets

\* this.assetMap.set(absoluteUrl, relativePath)
AssetMapKeep(map, absoluteUrl, relativePath) == map
AssetMapOnly(map, absoluteUrl, relativePath) == [u \in {absoluteUrl} |-> relativePath]
AssetMapSet(map, absoluteUrl, relativePath) ==
  [u \in DOMAIN map \cup {absoluteUrl} |-> IF u = absoluteUrl THEN relativePath ELSE map[u]]

\* ------------------------------------------------------ crawl controller
EmptyMap == [u \in {} |-> <<>>]

\* A request or file write in flight.
Op(o, url) == [op |-> o, url |-> url]

\* A crawlPage invocation suspended at `await this.client.get(url)`; gets and
\* agets count the GETs issued by the invocation for its page and by its
\* current downloadAsset call.
NewFrame(url, depth) ==
  [ url |-> url, depth |-> depth, pc |-> "fetch", html |-> <<>>, dom |-> <<>>,
    assets |-> <<>>, ai |-> 1, links |-> <<>>, li |-> 1, gets |-> 1, agets |-> 0 ]

\* if (depth > this.maxDepth || this.visitedUrls.has(url)) return;
CrawlGuardDepthOnly(url, depth) == depth > maxDepth
CrawlGuard(url, depth) == depth > maxDepth \/ url \in visitedUrls

\* await this.crawlPage(link, depth + 1)
ChildDepthSame(depth) == depth
ChildDepth(depth) == depth + 1

\* The innermost crawlPage returns: its frame is dropped, and clone() goes on
\* after its await when it was the root call.
Returned(st) ==
  [stack |-> Front(st), phase |-> IF Len(st) = 1 THEN "done" ELSE "crawling"]

\* catch (error) { console.error(...) } of crawlPage: the invocation returns.
RethrowPageError(st) == [stack |-> <<>>, phase |-> "failed"]
RetryPageError(st) == [stack |-> [st EXCEPT ![Len(st)].gets = @ + 1], phase |-> "crawling"]
CatchPageError(st) == Returned(st)

\* this.visitedUrls after the await of client.get: add(url) runs only when
\* the GET and cheerio.load did not throw.
VisitedAlways(url, ok) == visitedUrls \cup {url}
VisitedNever(url, ok) == visitedUrls
VisitedAfterGet(url, ok) == IF ok THEN visitedUrls \cup {url} ELSE visitedUrls

\* if (this.downloadAssets) await this.processAssets($, url): the assets list
AssetsAlways(html) == ScanAssets(html)
AssetsToProcess(html) == IF downloadAssets THEN ScanAssets(html) ELSE <<>>

\* for (const asset of assets) await this.downloadAsset(...): the loop goes on
\* to the next asset, and to rewriteLinks after the last one.
NextAsset(frame) ==
  [frame EXCEPT !.ai = @ + 1, !.agets = 0,
                !.pc = IF frame.ai = Len(frame.assets) THEN "rewrite" ELSE "assets"]

\* catch (error) { console.error(...) } of downloadAsset: the call returns,
\* the document and the crawl state are as they were.
SkipRemainingAssets(frame) ==
  [frame EXCEPT !.ai = Len(frame.assets) + 1, !.agets = 0, !.pc = "rewrite"]
CatchAssetError(frame) == NextAsset(frame)

\* The GETs the current downloadAsset call issues: one, for assets[ai].
AssetRequestsAll(frame) ==
  { Op("assetGet", Resolve(frame.assets[j].url, frame.url)) : j \in frame.ai..Len(frame.assets) }
AssetRequests(frame) ==
  { Op("assetGet", Resolve(frame.assets[frame.ai].url, frame.url)) }

Init ==
  /\ rootURL \in RootURLs
  /\ optMaxDepth \in 0..MaxDepthOpt
  /\ downloadAssets \in BOOLEAN
  /\ visitedUrls = {}
  /\ downloadedAssets = {}
  /\ assetMap = EmptyMap
  /\ stack = <<>>
  /\ phase = "constructed"
  /\ inflight = {}
  /\ fails = 0
  /\ pageGets = <<>>
  /\ pageWrites = <<>>
  /\ assetGets = <<>>
  /\ assetWrites = <<>>

\* clone() is called, on a new object or on one whose earlier clone() has
\* settled: await fs.ensureDir(this.outputDir).  The sets and the map of the
\* constructor are not touched.
Clone ==
  /\ phase \in {"constructed", "done", "failed"}
  /\ phase' = "preparing"
  /\ inflight' = inflight \cup {Op("ensureDir", rootURL)}
  /\ UNCHANGED << config, crawlState, stack, fails, history >>

\* ensureDir completes; clone() calls crawlPage(this.url, 0), which returns at
\* once or issues its GET.
StartCrawl ==
  /\ phase = "preparing"
  /\ \E ok \in BOOLEAN :
       /\ ~ok => fails < MaxFailures
       /\ fails' = IF ok THEN fails ELSE fails + 1
       /\ IF ~ok
            THEN stack' = <<>> /\ phase' = "failed"
                 /\ inflight' = inflight \ {Op("ensureDir", rootURL)}
          ELSE IF CrawlGuard(rootURL, 0)
            THEN stack' = <<>> /\ phase' = "done"
                 /\ inflight' = inflight \ {Op("ensureDir", rootURL)}
          ELSE stack' = << NewFrame(rootURL, 0) >> /\ phase' = "crawling"
               /\ inflight' = (inflight \ {Op("ensureDir", rootURL)}) \cup {Op("pageGet", rootURL)}
  /\ UNCHANGED << config, crawlState, history >>

\* The GET of crawlPage completes: parse, visitedUrls.add, and the scan of
\* processAssets; or the catch.
FetchPage ==
  /\ phase = "crawling"
  /\ Top.pc = "fetch"
  /\ \E ok \in BOOLEAN :
       /\ ok => PageServed(Top.url)
       /\ (~ok /\ PageServed(Top.url)) => fails < MaxFailures
       /\ fails' = IF ~ok /\ PageServed(Top.url) THEN fails + 1 ELSE fails
       /\ pageGets' = Append(pageGets, [url |-> Top.url, depth |-> Top.depth, ok |-> ok])
       /\ visitedUrls' = VisitedAfterGet(Top.url, ok)
       /\ inflight' = inflight \ {Op("pageGet", Top.url)}
       /\ IF ok
            THEN LET html == PageAt(Top.url)
                     assets == AssetsToProcess(html)
                 IN /\ stack' = SetTop([Top EXCEPT !.html = html, !.dom = html,
                                                   !.assets = assets,
                                                   !.pc = IF assets # <<>> THEN "assets" ELSE "rewrite"])
                    /\ phase' = phase
            ELSE /\ stack' = CatchPageError(stack).stack
                 /\ phase' = CatchPageError(stack).phase
  /\ UNCHANGED << config, downloadedAssets, assetMap, pageWrites, assetGets, assetWrites >>

\* One iteration of the loop of processAssets: downloadAsset(asset, pageUrl, $)
\* up to its first await.
DownloadAsset ==
  /\ phase = "crawling"
  /\ Top.pc = "assets"
  /\ LET asset == Top.assets[Top.ai]
         absoluteUrl == Resolve(asset.url, Top.url)
     IN IF ~CanResolve(asset.url)
          THEN \* new URL throws: caught and logged
               /\ stack' = SetTop(CatchAssetError(Top))
               /\ inflight' = inflight
        ELSE IF AlreadyDownloaded(absoluteUrl)
          THEN \* already downloaded: only the reference is updated; a missing
               \* mapping makes updateAssetReference throw, which is caught
               /\ stack' = SetTop(IF absoluteUrl \in DOMAIN assetMap
                                    THEN [NextAsset(Top) EXCEPT !.dom =
                                            updateAssetReference(Top.dom, asset, assetMap[absoluteUrl])]
                                    ELSE CatchAssetError(Top))
               /\ inflight' = inflight
        ELSE \* await this.client.get(absoluteUrl, ...)
               /\ stack' = SetTop([Top EXCEPT !.pc = "assetGet", !.agets = @ + 1])
               /\ inflight' = inflight \cup AssetRequests(Top)
  /\ UNCHANGED << config, crawlState, phase, fails, history >>

\* The GET of downloadAsset completes: fs.ensureDir and fs.writeFile are
\* started, or the catch.
AssetFetched ==
  /\ phase = "crawling"
  /\ Top.pc = "assetGet"
  /\ LET asset == Top.assets[Top.ai]
         absoluteUrl == Resolve(asset.url, Top.url)
     IN \E ok \in BOOLEAN :
          /\ ok => AssetServed(absoluteUrl)
          /\ (~ok /\ AssetServed(absoluteUrl)) => fails < MaxFailures
          /\ fails' = IF ~ok /\ AssetServed(absoluteUrl) THEN fails + 1 ELSE fails
          /\ assetGets' = Append(assetGets, [url |-> absoluteUrl, ok |-> ok])
          /\ IF ok
               THEN /\ stack' = SetTop([Top EXCEPT !.pc = "assetWrite"])
                    /\ inflight' = (inflight \ {Op("assetGet", absoluteUrl)})
                                     \cup {Op("assetWrite", absoluteUrl)}
               ELSE /\ stack' = SetTop(CatchAssetError(Top))
                    /\ inflight' = inflight \ {Op("assetGet", absoluteUrl)}
  /\ UNCHANGED << config, crawlState, phase, pageGets, pageWrites, assetWrites >>

\* The file write of downloadAsset completes: the asset is recorded and the
\* reference updated, or the catch.
AssetWritten ==
  /\ phase = "crawling"
  /\ Top.pc = "assetWrite"
  /\ LET asset == Top.assets[Top.ai]
         absoluteUrl == Resolve(asset.url, Top.url)
         relativePath == AssetRelativePath(asset, absoluteUrl)
     IN \E ok \in BOOLEAN :
          /\ ~ok => fails < MaxFailures
          /\ fails' = IF ok THEN fails ELSE fails + 1
          /\ inflight' = inflight \ {Op("assetWrite", absoluteUrl)}
          /\ IF ok
               THEN /\ assetWrites' = Append(assetWrites, [url |-> absoluteUrl, path |-> relativePath,
                                                            type |-> asset.type])
                    /\ downloadedAssets' = downloadedAssets \cup {absoluteUrl}
                    /\ assetMap' = AssetMapSet(assetMap, absoluteUrl, relativePath)
                    /\ stack' = SetTop([NextAsset(Top) EXCEPT !.dom =
                                          updateAssetReference(Top.dom, asset, relativePath)])
               ELSE /\ stack' = SetTop(CatchAssetError(Top))
                    /\ UNCHANGED << downloadedAssets, assetMap, assetWrites >>
  /\ UNCHANGED << config, visitedUrls, phase, pageGets, pageWrites, assetGets >>

\* crawlPage after processAssets: rewriteLinks, getFilename, and the start of
\* fs.ensureDir and fs.writeFile.
RewritePage ==
  /\ phase = "crawling"
  /\ Top.pc = "rewrite"
  /\ stack' = SetTop([Top EXCEPT !.dom = rewriteLinks(Top.dom, Top.url), !.pc = "write"])
  /\ inflight' = inflight \cup {Op("pageWrite", Top.url)}
  /\ UNCHANGED << config, crawlState, phase, fails, history >>

\* The file write of crawlPage completes: extractInternalLinks, or the catch.
WritePage ==
  /\ phase = "crawling"
  /\ Top.pc = "write"
  /\ LET filename == getFilename(Top.url)
         filepath == PathJoin(filename)
     IN \E ok \in BOOLEAN :
          /\ ~ok => fails < MaxFailures
          /\ fails' = IF ok THEN fails ELSE fails + 1
          /\ inflight' = inflight \ {Op("pageWrite", Top.url)}
          /\ IF ok
               THEN /\ pageWrites' = Append(pageWrites, [url |-> Top.url, path |-> filepath, dom |-> Top.dom])
                    /\ stack' = SetTop([Top EXCEPT !.pc = "links", !.li = 1,
                                                   !.links = extractInternalLinks(Top.dom, Top.url)])
                    /\ phase' = phase
               ELSE /\ pageWrites' = pageWrites
                    /\ stack' = CatchPageError(stack).stack
                    /\ phase' = CatchPageError(stack).phase
  /\ UNCHANGED << config, crawlState, pageGets, assetGets, assetWrites >>

\* One iteration of "for (const link of links) await this.crawlPage(link, depth + 1)",
\* up to the first await of the callee.
CrawlLink ==
  /\ phase = "crawling"
  /\ Top.pc = "links"
  /\ Top.li <= Len(Top.links)
  /\ LET link == Top.links[Top.li]
         caller == SetTop([Top EXCEPT !.li = @ + 1])
     IN IF CrawlGuard(link, ChildDepth(Top.depth))
          THEN stack' = caller /\ inflight' = inflight
          ELSE /\ stack' = Append(caller, NewFrame(link, ChildDepth(Top.depth)))
               /\ inflight' = inflight \cup {Op("pageGet", link)}
  /\ UNCHANGED << config, crawlState, phase, fails, history >>

\* The loop over links is over: crawlPage returns.
Return ==
  /\ phase = "crawling"
  /\ Top.pc = "links"
  /\ Top.li > Len(Top.links)
  /\ stack' = Returned(stack).stack
  /\ phase' = Returned(stack).phase
  /\ UNCHANGED << config, crawlState, inflight, fails, history >>

Next ==
  \/ Clone \/ StartCrawl \/ FetchPage \/ DownloadAsset \/ AssetFetched
  \/ AssetWritten \/ RewritePage \/ WritePage \/ CrawlLink \/ Return

Spec == Init /\ [][Next]_vars

\* The event loop runs every continuation that is ready.
FairSpec == Spec /\ WF_vars(Next)

\* ================================================================ claims
Count(s, P(_)) == Cardinality({ i \in DOMAIN s : P(s[i]) })

\* C1: once a URL is in visitedUrls, no later step issues a page GET for it,
\* and no later step writes its HTML file a second time.
C1_VisitedNeverRefetched ==
  [][ \A u \in visitedUrls :
        /\ ~(Len(pageGets') > Len(pageGets) /\ Last(pageGets').url = u)
        /\ (Len(pageWrites') > Len(pageWrites) /\ Last(pageWrites').url = u)
             => Count(pageWrites, LAMBDA w : w.url = u) = 0 ]_vars

\* A link to a URL that was crawled deeper in the tree in the meantime is
\* reached again in the loop of an outer invocation, and skipped.
C1_Witness ==
  \E k \in DOMAIN stack : \E j \in DOMAIN stack[k].links :
     /\ j < stack[k].li
     /\ stack[k].links[j] \in visitedUrls
     /\ \E g \in Range(pageGets) :
          g.url = stack[k].links[j] /\ g.ok /\ g.depth > stack[k].depth + 1

\* C2: no page is fetched at a depth above the configured maxDepth N, for
\* every N >= 0; with N = 0 only the root page is fetched.
C2_DepthBound ==
  \A g \in Range(pageGets) : g.depth <= optMaxDepth

\* C3: when a crawled page links back to the root page, the root page is
\* fetched once and its file is written once.
LinksBackToRoot ==
  \E g \in Range(pageGets) :
     /\ g.ok
     /\ \E e \in Range(PageAt(g.url)) :
          e.tag = "a" /\ CanResolve(e.ref) /\ e.ref.kind \in {"abs", "path", "rel"}
          /\ Resolve(e.ref, g.url) = rootURL
C3_RootCrawledOnce ==
  LinksBackToRoot =>
     /\ Count(pageGets, LAMBDA g : g.url = rootURL) <= 1
     /\ Count(pageWrites, LAMBDA w : w.path = PathJoin(getFilename(rootURL))) <= 1

\* The elements of the fetched page at pageUrl that reference the asset at
\* absolute URL a, as indices into the document.
AssetRefs(pageUrl, a) ==
  { i \in DOMAIN PageAt(pageUrl) :
      LET e == PageAt(pageUrl)[i] IN
        \/ /\ e.tag \in {"img", "script"} \/ (e.tag = "link" /\ e.rel = "stylesheet")
           /\ e.ref.kind \in {"abs", "path", "rel"}
           /\ Resolve(e.ref, pageUrl) = a
        \/ /\ e.style.decl = "background-image"
           /\ e.style.url.kind \in {"abs", "path", "rel"}
           /\ Resolve(e.style.url, pageUrl) = a }

\* The value the asset attribute of element i has in a written document.
AssetAttr(dom, i) == IF dom[i].style.decl = "none" THEN dom[i].ref ELSE dom[i].style.url

\* Every GET of asset a so far succeeded and was followed by its file write.
NoFailedAttempt(a) ==
  Count(assetGets, LAMBDA g : g.url = a) = Count(assetWrites, LAMBDA w : w.url = a)

\* C4: an asset URL referenced from several pages, or several times on one
\* page, is downloaded and written once, has one assetMap entry, and all the
\* elements that reference it are rewritten to that one relative path.
C4_AssetDedup ==
  \A a \in { g.url : g \in Range(assetGets) } :
     /\ Count(assetWrites, LAMBDA w : w.url = a) <= 1
     /\ a \in downloadedAssets =>
          /\ Count(assetWrites, LAMBDA w : w.url = a) = 1
          /\ a \in DOMAIN assetMap
          /\ \A w \in Range(pageWrites) : \A i \in AssetRefs(w.url, a) :
               \/ AssetAttr(w.dom, i) = RelRef(assetMap[a])
               \/ /\ AssetAttr(w.dom, i) = AssetAttr(PageAt(w.url), i)
                  /\ ~NoFailedAttempt(a)

\* One asset, downloaded, that is referenced twice by one written page and
\* also by a written page at another URL.
C4_Witness ==
  \E a \in downloadedAssets : \E w1, w2 \in Range(pageWrites) :
     /\ NoFailedAttempt(a)
     /\ w1.url # w2.url
     /\ Cardinality(AssetRefs(w1.url, a)) >= 2
     /\ AssetRefs(w2.url, a) # {}
     /\ PageAt(w1.url) # PageAt(w2.url)

\* C5: the keys of assetMap are exactly downloadedAssets, which are exactly
\* the asset URLs whose fetch and file write succeeded.
C5_AssetMapKeys ==
  /\ DOMAIN assetMap = downloadedAssets
  /\ downloadedAssets = { w.url : w \in Range(assetWrites) }

\* Some asset is mapped while another, whose download failed, is not.
C5_Witness ==
  /\ downloadedAssets # {}
  /\ \E g \in Range(assetGets) : ~g.ok /\ g.url \notin DOMAIN assetMap

\* C6: the root call crawlPage(rootURL, 0) eventually returns normally,
\* whatever page, asset and write failures occur: a crawl in progress ends,
\* and it never ends with clone() rejected.
C6_Terminates ==
  /\ (phase = "crawling") ~> (phase = "done")
  /\ [][phase = "crawling" => phase' \in {"crawling", "done"}]_vars

\* The crawl is over after a page GET, an asset GET and a write have failed.
C6_Witness ==
  /\ phase = "done"
  /\ \E g \in Range(pageGets) : ~g.ok
  /\ \E g \in Range(assetGets) : ~g.ok
  /\ fails >= 2

\* An href the link rewriter must leave alone, by the form of the string.
NotInternalHref(href, pageUrl) ==
  \/ href.kind \in {"empty", "hash", "mailto", "tel", "bad"}
  \/ href.kind = "abs" /\ href.host # RootHost

\* C7: rewriteLinks leaves the href of every anchor that is not internal as
\* it was in the fetched page.
C7_ExternalLinksUnchanged ==
  \A w \in Range(pageWrites) : \A i \in DOMAIN w.dom :
     (PageAt(w.url)[i].tag = "a" /\ NotInternalHref(PageAt(w.url)[i].ref, w.url))
        => w.dom[i] = PageAt(w.url)[i]

\* Written pages that hold an external, an empty, a mailto:, a tel:, a "#"
\* and an unparseable href, next to internal ones that were rewritten.
C7_Witness ==
  \A k \in {"empty", "hash", "mailto", "tel", "bad", "abs"} :
     \E w \in Range(pageWrites) : \E i \in DOMAIN w.dom :
        /\ PageAt(w.url)[i].tag = "a"
        /\ PageAt(w.url)[i].ref.kind = k
        /\ NotInternalHref(PageAt(w.url)[i].ref, w.url)
        /\ \E j \in DOMAIN w.dom : w.dom[j] # PageAt(w.url)[j]

\* The output of getFilename, read again as a path-only input.
AsPathInput(filename) == Url(RootHost, filename.path)

\* C8: getFilename is idempotent, getFilename(getFilename(u)) = getFilename(u).
C8_FilenameIdempotent ==
  \A w \in Range(pageWrites) :
     getFilename(AsPathInput(getFilename(w.url))) = getFilename(w.url)

\* The output path the claim gives for a page URL.
ExpectedPagePath(url) ==
  IF url.path = <<Slash>> THEN << Seg("index", "html") >>
  ELSE IF Last(url.path) = Slash THEN Front(url.path) \o << Seg("index", "html") >>
  ELSE IF Last(url.path).ext = "" THEN Front(url.path) \o << Seg(Last(url.path).stem, "html") >>
  ELSE url.path

\* C9: every page is written, under outputRoot, at the path derived from its
\* URL path: index.html, <path>.html, <path>/index.html or the path itself.
C9_PageWrittenAtDerivedPath ==
  \A w \in Range(pageWrites) : w.path = ExpectedPagePath(w.url)

\* A page without extension and a page in a sub-directory are written.
C9_Witness ==
  \E w1, w2 \in Range(pageWrites) :
     /\ Last(w1.url.path).ext = "" /\ Last(w1.url.path) # Slash
     /\ Len(w2.url.path) >= 2 /\ Last(w2.url.path).ext # ""

\* C10: a step in which a page GET fails leaves visitedUrls, downloadedAssets
\* and assetMap as they were, writes no file, fetches no asset, and ends the
\* invocation: none of the page's links is crawled.
C10_FetchFailureNoEffect ==
  [][ (Len(pageGets') > Len(pageGets) /\ ~Last(pageGets').ok) =>
        /\ UNCHANGED << visitedUrls, downloadedAssets, assetMap >>
        /\ UNCHANGED << pageWrites, assetGets, assetWrites >>
        /\ Last(pageGets').url \notin visitedUrls'
        /\ stack' = Front(stack) ]_vars

\* A page the server holds failed to load, and the crawl went on after it.
C10_Witness ==
  \E i \in DOMAIN pageGets :
     /\ ~pageGets[i].ok
     /\ PageServed(pageGets[i].url)
     /\ pageGets[i].url \notin visitedUrls
     /\ i < Len(pageGets)

\* A step in which the GET or the file write of an asset fails.
AssetFailureStep ==
  \/ Len(assetGets') > Len(assetGets) /\ ~Last(assetGets').ok
  \/ phase = "crawling" /\ Top.pc = "assetWrite" /\ stack' # stack /\ assetWrites' = assetWrites

\* C11: a step in which an asset GET or write fails leaves the document,
\* downloadedAssets and assetMap as they were and goes on with the next asset
\* of the page, or with rewriteLinks after the last; and every page is written
\* with the elements of the assets that were never downloaded as fetched.
C11_AssetFailureNonFatal ==
  [][ /\ AssetFailureStep =>
           /\ Top'.dom = Top.dom
           /\ UNCHANGED << downloadedAssets, assetMap, visitedUrls >>
           /\ Len(stack') = Len(stack) /\ phase' = "crawling"
           /\ Top'.ai = Top.ai + 1
           /\ Top'.pc = IF Top.ai < Len(Top.assets) THEN "assets" ELSE "rewrite"
      /\ Len(pageWrites') > Len(pageWrites) =>
           LET w == Last(pageWrites')
           IN \A g \in Range(assetGets) : \A i \in AssetRefs(w.url, g.url) :
                g.url \notin downloadedAssets => w.dom[i] = PageAt(w.url)[i] ]_vars

\* A written page with an element whose asset failed to download and was not
\* downloaded since, a later element that was rewritten to its local path,
\* and a rewritten anchor.
C11_Witness ==
  \E w \in Range(pageWrites) : \E g \in Range(assetGets) :
     /\ ~g.ok /\ AssetServed(g.url) /\ g.url \notin downloadedAssets
     /\ \E i \in AssetRefs(w.url, g.url) : \E j \in DOMAIN w.dom :
          /\ j > i
          /\ \E a \in downloadedAssets : j \in AssetRefs(w.url, a) /\ w.dom[j] # PageAt(w.url)[j]
     /\ \E k \in DOMAIN w.dom : w.dom[k].tag = "a" /\ w.dom[k] # PageAt(w.url)[k]

\* C12: after a failed GET of a page URL no later step issues another GET
\* for that URL.
C12_FailedPageDropped ==
  \A i, j \in DOMAIN pageGets :
     (i < j /\ pageGets[i].url = pageGets[j].url) => pageGets[i].ok

\* The loop over links calls crawlPage for its next link.
CrawlLinkStep ==
  phase = "crawling" /\ Top.pc = "links" /\ Top.li <= Len(Top.links) /\ stack' # stack

\* C12, as the code has it: a failed GET does not mark the URL visited, so a
\* later link to it within the depth bound issues another GET; only a
\* successful GET ends the fetching of a URL.
C12_FailedPageFetchedAgain ==
  [][ /\ visitedUrls' = { g.url : g \in { h \in Range(pageGets') : h.ok } }
      /\ \A i, j \in DOMAIN pageGets' :
           (i < j /\ pageGets'[i].url = pageGets'[j].url) => ~pageGets'[i].ok
      /\ CrawlLinkStep =>
           LET link == Top.links[Top.li]
           IN ( /\ \E g \in Range(pageGets) : g.url = link /\ ~g.ok
                /\ \A g \in Range(pageGets) : g.url = link => ~g.ok
                /\ Top.depth + 1 <= maxDepth )
              => /\ Op("pageGet", link) \in inflight'
                 /\ Len(stack') = Len(stack) + 1 /\ Top'.url = link ]_vars

\* A page whose GET failed was reached by a later link, fetched again and
\* loaded.
C12_Witness ==
  \E i, j \in DOMAIN pageGets :
     /\ i < j /\ pageGets[i].url = pageGets[j].url
     /\ ~pageGets[i].ok /\ pageGets[j].ok

\* C13: across the whole crawl at most one GET is issued per absolute asset
\* URL, whether or not that GET succeeded.
C13_OneGetPerAsset ==
  \A a \in { g.url : g \in Range(assetGets) } :
     Count(assetGets, LAMBDA g : g.url = a) <= 1

\* C13, as the code has it: no GET is issued for an asset URL that is in
\* downloadedAssets, so at most one download of a URL is completed; a
\* reference to a URL that is not in downloadedAssets, because it was never
\* requested or because its GET or write failed, issues a GET.
C13_OneDownloadPerAsset ==
  [][ /\ \A a \in downloadedAssets :
           ~(Len(assetGets') > Len(assetGets) /\ Last(assetGets').url = a)
      /\ \A a \in downloadedAssets' : Count(assetWrites', LAMBDA w : w.url = a) = 1
      /\ (phase = "crawling" /\ Top.pc = "assets" /\ CanResolve(Top.assets[Top.ai].url)) =>
           LET a == Resolve(Top.assets[Top.ai].url, Top.url)
           IN IF a \in downloadedAssets
                THEN inflight' = inflight
                ELSE Op("assetGet", a) \in inflight' /\ Top'.pc = "assetGet" ]_vars

\* An asset whose first GET failed was requested again for a later reference
\* and is now downloaded.
C13_Witness ==
  \E i, j \in DOMAIN assetGets :
     /\ i < j /\ assetGets[i].url = assetGets[j].url
     /\ ~assetGets[i].ok /\ assetGets[j].ok
     /\ assetGets[j].url \in downloadedAssets

AwaitedOp ==
  CASE phase = "preparing" -> {Op("ensureDir", rootURL)}
    [] phase = "crawling" /\ Top.pc = "fetch" -> {Op("pageGet", Top.url)}
    [] phase = "crawling" /\ Top.pc = "assetGet" ->
         {Op("assetGet", Resolve(Top.assets[Top.ai].url, Top.url))}
    [] phase = "crawling" /\ Top.pc = "assetWrite" ->
         {Op("assetWrite", Resolve(Top.assets[Top.ai].url, Top.url))}
    [] phase = "crawling" /\ Top.pc = "write" -> {Op("pageWrite", Top.url)}
    [] OTHER -> {}

\* C15: at every point of a crawl at most one fetch or file write is in
\* flight, the one the innermost invocation awaits; none starts before the
\* previous one has completed.
C15_StrictSequencing ==
  /\ Cardinality(inflight) <= 1
  /\ inflight = AwaitedOp

\* An asset write is in flight, alone, in a page crawled from a link, after
\* page GETs, asset GETs and writes have completed.
C15_Witness ==
  /\ Len(stack) >= 2
  /\ \E o \in inflight : o.op = "assetWrite" /\ inflight = {o}
  /\ pageWrites # <<>> /\ assetWrites # <<>> /\ Len(pageGets) >= 2

\* The saved path the claim gives for the assets of the site: a basename
\* without extension gets the extension of the MIME table for its
\* content-type, or none; a basename with an extension is kept.
ExpectedAssetPath(url) ==
  CASE url.path \in {LogoRef.path, IconLogoRef.path} ->
         << Seg("assets", ""), Seg("image", ""), Seg("logo", "png") >>
    [] url.path = RawRef.path -> << Seg("assets", ""), Seg("image", ""), Seg("raw", "") >>
    [] url.path = BlobRef.path -> << Seg("assets", ""), Seg("image", ""), Seg("blob", "") >>
    [] url.path = SiteCssRef.path -> << Seg("assets", ""), Seg("css", ""), Seg("site", "css") >>
    [] url.path = BgJpgRef.path -> << Seg("assets", ""), Seg("image", ""), Seg("bg", "jpg") >>
    [] OTHER -> <<>>

\* C16: an asset whose basename has no extension is saved as the basename
\* plus the extension of the MIME table for the response content-type
\* (/img/logo with image/png as assets/image/logo.png), without extension
\* for an unknown or missing content-type; a basename with an extension is
\* used as it is; the file is under assets/<category>/, and that path is the
\* one recorded in assetMap.
C16_ExtensionGuessing ==
  /\ \A w \in Range(assetWrites) :
       /\ w.path = ExpectedAssetPath(w.url)
       /\ Len(w.path) = 3 /\ w.path[1] = Seg("assets", "") /\ w.path[2] = Seg(w.type, "")
  /\ \A a \in DOMAIN assetMap : assetMap[a] = ExpectedAssetPath(a)

\* Saved in one crawl: an asset that got its extension from image/png, one
\* with an unknown content-type, one without content-type, and one whose
\* basename has an extension.
C16_Witness ==
  \A p \in {LogoRef.path, RawRef.path, BlobRef.path, SiteCssRef.path} :
     \E w \in Range(assetWrites) : w.url.path = p

\* The elements of a fetched page whose inline style holds a
\* background-image: url(...) declaration.
StyleRefs(pageUrl) ==
  { i \in DOMAIN PageAt(pageUrl) : PageAt(pageUrl)[i].style.decl = "background-image" }

\* C17: in the style attribute of a written page only the url(...) portion
\* is replaced, by url('<relativePath>'); every other character of the style
\* text, the whitespace before url( included, is as it was fetched.
C17_OnlyUrlPortionReplaced ==
  \A w \in Range(pageWrites) : \A i \in StyleRefs(w.url) :
     LET orig == PageAt(w.url)[i]
         a == Resolve(orig.style.url, w.url)
     IN \/ w.dom[i] = orig
        \/ /\ a \in DOMAIN assetMap
           /\ w.dom[i] = [orig EXCEPT !.style.quote = "'", !.style.url = RelRef(assetMap[a])]

\* C17, as the code has it: the matched text "background-image:", optional
\* whitespace, url(...) is replaced by "background-image: url('<relativePath>')"
\* with one space and single quotes; the text before and after the match is
\* as it was fetched; a style whose asset was not downloaded is not changed.
C17_StyleDeclarationReplaced ==
  \A w \in Range(pageWrites) : \A i \in StyleRefs(w.url) :
     LET orig == PageAt(w.url)[i]
         a == Resolve(orig.style.url, w.url)
     IN /\ \/ w.dom[i] = orig
           \/ /\ a \in DOMAIN assetMap
              /\ w.dom[i] = [orig EXCEPT !.style.ws = 1, !.style.quote = "'",
                                         !.style.url = RelRef(assetMap[a])]
        /\ (downloadAssets /\ a \in downloadedAssets /\ NoFailedAttempt(a)) => w.dom[i] # orig
        /\ a \notin downloadedAssets => w.dom[i] = orig

\* A written page whose style "color: red; background-image:url("/bg.jpg");
\* margin: 0" was rewritten: the text around the declaration is kept, the
\* space after the colon is new.
C17_Witness ==
  \E w \in Range(pageWrites) : \E i \in StyleRefs(w.url) :
     /\ PageAt(w.url)[i].style.pre # "" /\ PageAt(w.url)[i].style.post # ""
     /\ PageAt(w.url)[i].style.ws = 0
     /\ w.dom[i].style.ws = 1
     /\ w.dom[i].style.url = RelRef(<< Seg("assets", ""), Seg("image", ""), Seg("bg", "jpg") >>)
     /\ w.dom[i].style.pre = PageAt(w.url)[i].style.pre

\* The internal links crawlPage finds on the page at url.
LinksOf(url) == extractInternalLinks(rewriteLinks(PageAt(url), url), url)

\* C18: when the crawl is over, every internal link of every page that was
\* loaded at a depth below maxDepth has been requested, whether or not the
\* file of the page could be written.
C18_WriteFailureKeepsLinks ==
  (phase = "done" /\ optMaxDepth >= 1) =>
     \A g \in Range(pageGets) :
        (g.ok /\ g.depth < maxDepth) =>
           \A link \in Range(LinksOf(g.url)) : \E h \in Range(pageGets) : h.url = link

\* The first anchor of a document whose href resolves to link.
FirstAnchor(dom, url, link) ==
  LET hits == { i \in DOMAIN dom :
                  dom[i].tag = "a" /\ CanResolve(dom[i].ref) /\ Resolve(dom[i].ref, url) = link }
  IN CHOOSE i \in hits : \A j \in hits : i <= j

\* C19: inside crawlPage a URL is marked visited after its GET and parse and
\* before its assets are processed; the page's file is written before any of
\* its links is fetched; the links are crawled one at a time in document
\* order, the subtree of a link being over before the next link is taken,
\* each at the depth of the parent plus one.
C19_TraversalOrder ==
  [][ /\ \A k \in DOMAIN stack' :
           LET f == stack'[k] IN
           /\ (f.pc = "fetch") = (f.url \notin visitedUrls')
           /\ f.pc = "fetch" => k = Len(stack') /\ f.assets = <<>>
           /\ f.pc \in {"assets", "assetGet", "assetWrite", "rewrite", "write"} =>
                /\ k = Len(stack')
                /\ \A w \in Range(pageWrites') : w.url # f.url
           /\ f.pc = "links" =>
                /\ \E w \in Range(pageWrites') : w.url = f.url
                /\ \A i, j \in DOMAIN f.links :
                     i < j => FirstAnchor(f.dom, f.url, f.links[i]) < FirstAnchor(f.dom, f.url, f.links[j])
           /\ k = 1 => f.depth = 0 /\ f.url = rootURL
           /\ k > 1 =>
                LET parent == stack'[k - 1] IN
                /\ parent.pc = "links"
                /\ parent.li >= 2 /\ f.url = parent.links[parent.li - 1]
                /\ f.depth = parent.depth + 1
      /\ (phase = "crawling" /\ Len(stack') > Len(stack)) =>
           /\ Top.pc = "links" /\ Top'.url = Top.links[Top.li]
           /\ stack'[Len(stack)].li = Top.li + 1
      /\ (phase = "crawling" /\ Len(stack') = Len(stack)) =>
           \A k \in 1..(Len(stack) - 1) : stack'[k] = stack[k]
      /\ visitedUrls' # visitedUrls =>
           /\ Top.pc = "fetch" /\ visitedUrls' = visitedUrls \cup {Top.url}
           /\ Last(pageGets').ok /\ Last(pageGets').url = Top.url
           /\ Len(pageGets') = Len(pageGets) + 1
           /\ UNCHANGED << assetGets, assetWrites, downloadedAssets >> ]_vars

\* The crawl is two links deep, in the subtree of the second link of the
\* root page, after the subtree of the first link was crawled to the end.
C19_Witness ==
  /\ Len(stack) = 3
  /\ stack[1].li = 3
  /\ stack[3].pc = "assets"
  /\ \E g \in Range(pageGets) : g.url = stack[1].links[1] /\ g.ok

\* C20: with downloadAssets disabled no asset GET is issued, downloadedAssets
\* and assetMap stay empty, no file is written under assets/, every element
\* of a written page other than an internal anchor is as it was fetched, and
\* the internal anchors are rewritten.
C20_AssetsDisabled ==
  ~downloadAssets =>
     /\ assetGets = <<>> /\ assetWrites = <<>>
     /\ downloadedAssets = {} /\ assetMap = EmptyMap
     /\ \A o \in inflight : o.op \notin {"assetGet", "assetWrite"}
     /\ \A k \in DOMAIN stack : stack[k].assets = <<>>
     /\ \A w \in Range(pageWrites) :
          /\ w.path[1] # Seg("assets", "")
          /\ \A i \in DOMAIN w.dom :
               LET orig == PageAt(w.url)[i] IN
               IF orig.tag = "a" /\ ~NotInternalHref(orig.ref, w.url)
                 THEN /\ w.dom[i].ref # orig.ref
                      /\ w.dom[i].ref.kind \in {"path", "rel"}
                      /\ w.dom[i].style = orig.style
                 ELSE w.dom[i] = orig

\* A crawl without asset download is over: it wrote two pages that hold
\* img, link, script or style references, with their anchors rewritten.
C20_Witness ==
  /\ ~downloadAssets /\ phase = "done"
  /\ \E w1, w2 \in Range(pageWrites) :
       /\ w1.url # w2.url
       /\ ScanAssets(PageAt(w1.url)) # <<>> /\ ScanAssets(PageAt(w2.url)) # <<>>
       /\ w1.dom # PageAt(w1.url) /\ w2.dom # PageAt(w2.url)

\* The elements of a document whose inline style holds a background-image
\* or a background: declaration with a url(...) value.
BackgroundUrlElements(dom) ==
  { i \in DOMAIN dom : dom[i].style.decl \in {"background-image", "background"}
                        /\ dom[i].style.url.kind # "empty" }

\* C21: the asset scan of a page yields an image asset for every element
\* whose style has a background-image or a background: declaration with a
\* url(...) value.
C21_BackgroundShorthandScanned ==
  downloadAssets =>
     \A k \in DOMAIN stack :
        stack[k].pc # "fetch" =>
           \A i \in BackgroundUrlElements(stack[k].html) :
              \E j \in DOMAIN stack[k].assets :
                 /\ stack[k].assets[j].element = i
                 /\ stack[k].assets[j].type = "image"
                 /\ stack[k].assets[j].url = stack[k].html[i].style.url

\* What may differ between a fetched element and the element in the document
\* after processAssets and rewriteLinks: the src of img and script, the href
\* of a stylesheet link and of an internal anchor, the style of an element
\* with a matched background-image url.
OnlyTargetsDiffer(orig, now, pageUrl) ==
  /\ now.tag = orig.tag /\ now.rel = orig.rel
  /\ now.ref # orig.ref =>
       \/ orig.tag \in {"img", "script"}
       \/ orig.tag = "link" /\ orig.rel = "stylesheet"
       \/ orig.tag = "a" /\ ~NotInternalHref(orig.ref, pageUrl)
  /\ now.style # orig.style =>
       /\ orig.style.decl = "background-image"
       /\ now.style.decl = orig.style.decl
       /\ now.style.pre = orig.style.pre /\ now.style.post = orig.style.post

\* C22: in the document of every invocation and in every written page, the
\* elements are those of the fetched page, and only the attribute values the
\* asset pipeline and the link rewriter target can differ from it.
C22_OnlyTargetedAttributes ==
  /\ \A k \in DOMAIN stack :
       stack[k].pc # "fetch" =>
          /\ stack[k].html = PageAt(stack[k].url)
          /\ Len(stack[k].dom) = Len(stack[k].html)
          /\ \A i \in DOMAIN stack[k].dom :
               OnlyTargetsDiffer(stack[k].html[i], stack[k].dom[i], stack[k].url)
  /\ \A w \in Range(pageWrites) :
       /\ Len(w.dom) = Len(PageAt(w.url))
       /\ \A i \in DOMAIN w.dom : OnlyTargetsDiffer(PageAt(w.url)[i], w.dom[i], w.url)

\* A written page in which an img, a script-or-stylesheet, a style and an
\* anchor were rewritten next to a non-stylesheet link that was not.
C22_Witness ==
  \E w \in Range(pageWrites) :
     LET orig == PageAt(w.url) IN
     /\ \E i \in DOMAIN orig : orig[i].tag = "link" /\ orig[i].rel # "stylesheet"
                               /\ orig[i].ref.kind = "path" /\ w.dom[i] = orig[i]
     /\ \E i \in DOMAIN orig : orig[i].tag = "img" /\ w.dom[i].ref # orig[i].ref
     /\ \E i \in DOMAIN orig : orig[i].tag = "a" /\ w.dom[i].ref # orig[i].ref
     /\ \E i \in DOMAIN orig : w.dom[i].style # orig[i].style

\* A step in which clone() is called.
CloneCalled == phase # "preparing" /\ phase' = "preparing"

\* C23: every invocation of clone() starts with empty visitedUrls,
\* downloadedAssets and assetMap, and requests the root page.
C23_StatePerInvocation ==
  [][ /\ CloneCalled =>
           visitedUrls' = {} /\ downloadedAssets' = {} /\ assetMap' = EmptyMap
      /\ (phase = "preparing" /\ phase' # "failed") =>
           Op("pageGet", rootURL) \in inflight' ]_vars

\* The URLs the internal anchors of the fetched page at url point to.
InternalTargets(url) ==
  { Resolve(e.ref, url) :
      e \in { x \in Range(PageAt(url)) : x.tag = "a" /\ ~NotInternalHref(x.ref, url) } }

\* The pages of the site within n links of the root page.
RECURSIVE ReachableWithin(_)
ReachableWithin(n) ==
  IF n = 0 THEN {rootURL}
  ELSE LET near == ReachableWithin(n - 1)
       IN near \cup { u \in UNION { InternalTargets(v) : v \in { x \in near : PageServed(x) } } :
                        PageServed(u) }

\* C24: when a crawl in which no GET and no write failed is over, every page
\* of the site within maxDepth links of the root page has been fetched and
\* its file written.
C24_DepthCoverage ==
  ( /\ phase = "done" /\ optMaxDepth >= 1 /\ fails = 0
    /\ \A g \in Range(pageGets) : g.ok
    /\ \A g \in Range(assetGets) : g.ok )
  => \A u \in ReachableWithin(maxDepth) :
        \E w \in Range(pageWrites) :
           /\ w.path = PathJoin(getFilename(u))
           /\ PageAt(w.url) = PageAt(u)

\* C25: on every written page the href of an internal anchor is the path,
\* relative to the output directory and without a leading separator, at
\* which crawlPage writes the page of the anchor's target.
C25_LinkFileConsistency ==
  \A w \in Range(pageWrites) : \A i \in DOMAIN w.dom :
     LET orig == PageAt(w.url)[i] IN
     (orig.tag = "a" /\ ~NotInternalHref(orig.ref, w.url)) =>
        w.dom[i].ref = RelRef(PathJoin(getFilename(Resolve(orig.ref, w.url))))

\* C26: every URL crawlPage is invoked on at depth >= 1 is the resolution of
\* an internal href of the parent page as it was fetched.
C26_LinkTargetsUnchanged ==
  \A k \in DOMAIN stack :
     k > 1 => stack[k].url \in InternalTargets(stack[k - 1].url)

\* C27: two distinct asset URLs of assetMap have distinct local paths, and
\* no asset file is written over the file of another asset.
C27_AssetMapInjective ==
  /\ \A a, b \in DOMAIN assetMap : a # b => assetMap[a] # assetMap[b]
  /\ \A i, j \in DOMAIN assetWrites :
       assetWrites[i].url # assetWrites[j].url => assetWrites[i].path # assetWrites[j].path

\* C28: two distinct URLs of visitedUrls are written to distinct output
\* paths, and no output HTML file is written twice.
C28_PageFilesDistinct ==
  optMaxDepth >= 1 =>
     /\ \A u, v \in visitedUrls :
          u # v => PathJoin(getFilename(u)) # PathJoin(getFilename(v))
     /\ \A i, j \in DOMAIN pageWrites :
          i # j => pageWrites[i].path # pageWrites[j].path

\* C29: no step removes a URL from visitedUrls or downloadedAssets or a key
\* from assetMap, and no step changes the path assetMap holds for a URL.
C29_StateOnlyGrows ==
  [][ /\ visitedUrls \subseteq visitedUrls'
      /\ downloadedAssets \subseteq downloadedAssets'
      /\ DOMAIN assetMap \subseteq DOMAIN assetMap'
      /\ \A a \in DOMAIN assetMap : assetMap'[a] = assetMap[a] ]_vars

\* Pages and assets were recorded, a download failed in between, and the
\* sets hold what they held when a later clone() is called.
C29_Witness ==
  /\ phase = "preparing"
  /\ Cardinality(visitedUrls) >= 2
  /\ Cardinality(DOMAIN assetMap) >= 2
  /\ \E g \in Range(assetGets) : ~g.ok
  /\ \E g \in Range(pageGets) : ~g.ok

\* C30: every URL of visitedUrls has had exactly one successful page GET,
\* every successfully fetched URL is in visitedUrls, and every HTML file is
\* written for a URL that is in visitedUrls when the write is done.
C30_WrittenVisitedFetched ==
  [][ /\ \A u \in visitedUrls' :
           Count(pageGets', LAMBDA g : g.url = u /\ g.ok) = 1
      /\ \A g \in Range(pageGets') : g.ok => g.url \in visitedUrls'
      /\ \A w \in Range(pageWrites') : w.url \in visitedUrls'
      /\ Len(pageWrites') > Len(pageWrites) =>
           /\ Last(pageWrites').url \in visitedUrls
           /\ Len(pageWrites') = Len(pageWrites) + 1 ]_vars

\* A URL became visited by its second GET after a failed first one, two
\* pages are written, and a visited page has no file because its write
\* failed.
C30_Witness ==
  /\ \E u \in visitedUrls : Count(pageGets, LAMBDA g : g.url = u) >= 2
  /\ Len(pageWrites) >= 2
  /\ phase = "done"
  /\ \E u \in visitedUrls : \A w \in Range(pageWrites) : w.url # u

====
